---- MODULE Spec2Model ----
(***************************************************************************)
(* The PnP request router of the usbip-win2 virtual host controller        *)
(* (driver/vhci/pnp.cpp): one virtual device node (vdev), the minor-        *)
(* function dispatch table, the lifecycle handlers and the interface        *)
(* reference gate.                                                          *)
(*                                                                          *)
(* Spec     delivers requests one at a time: each action is a whole run of  *)
(*          vhci_pnp on one IRP.                                            *)
(* SpecConc delivers requests to the same vdev from several threads, each   *)
(*          run of vhci_pnp split at its reads and writes of the vdev.      *)
(* SpecLive  is one such thread under weak fairness, with the users of the *)
(*           interface free never to release their references.             *)
(* SpecQuery is Spec with the inputs of each request kept in its record.    *)
(*                                                                          *)
(* The installer tool (part_000): SpecFilter runs "classfilter add" and     *)
(* "classfilter remove" on the filter lists of a class key; SpecDevnode     *)
(* runs "devnode remove" over an enumeration of devices.                    *)
(* SpecEntered is SpecQuery with the handler of QueryPnpDeviceState also  *)
(* entered directly; SpecFetch runs the transfer fetch helper (part_001).   *)
(***************************************************************************)
EXTENDS Integers, Sequences, FiniteSets, TLC

\* ------------------------------------------------------------------ bounds
MaxRef == 1          \* largest interface reference count explored
ExtraMinor == 1      \* how many minor-function codes past the table are delivered
NThreads == 2        \* threads delivering requests concurrently (SpecConc)

\* ------------------------------------------------------------- vocabulary
STATUS_SUCCESS == "STATUS_SUCCESS"
STATUS_NOT_SUPPORTED == "STATUS_NOT_SUPPORTED"
STATUS_UNSUCCESSFUL == "STATUS_UNSUCCESSFUL"
STATUS_NO_SUCH_DEVICE == "STATUS_NO_SUCH_DEVICE"
STATUS_INSUFFICIENT_RESOURCES == "STATUS_INSUFFICIENT_RESOURCES"
STATUS_INVALID_PARAMETER == "STATUS_INVALID_PARAMETER"

VDEV_ROOT == "VDEV_ROOT"
VDEV_CPDO == "VDEV_CPDO"
VDEV_VHCI == "VDEV_VHCI"
VDEV_HPDO == "VDEV_HPDO"
VDEV_VHUB == "VDEV_VHUB"
VDEV_VPDO == "VDEV_VPDO"

\* the six kinds of node, in the order of vdev_desc
vdev_type_t == <<VDEV_ROOT, VDEV_CPDO, VDEV_VHCI, VDEV_HPDO, VDEV_VHUB, VDEV_VPDO>>

VdevTypes == {vdev_type_t[i] : i \in DOMAIN vdev_type_t}

vdev_desc == [t \in VdevTypes |->
    CASE t = VDEV_ROOT -> "usbip-win ROOT"
      [] t = VDEV_CPDO -> "usbip-win CPDO"
      [] t = VDEV_VHCI -> "usbip-win VHCI"
      [] t = VDEV_HPDO -> "usbip-win HPDO"
      [] t = VDEV_VHUB -> "usbip-win VHUB"
      [] t = VDEV_VPDO -> "usbip-win VPDO"]

pnp_state == {"NotStarted", "Started", "StopPending", "Stopped",
              "RemovePending", "SurpriseRemovePending", "Removed"}

\* the kinds that have a lower layer to forward to (spec, section 3)
is_fdo(type) == type \in {VDEV_VHCI, VDEV_VHUB, VDEV_VPDO}

\* IRP_MN_* codes, the ordinals of pnpmn_functions (0-based, as in the driver)
pnpmn_functions == <<
    "pnp_start_device",
    "pnp_query_remove_device",
    "pnp_remove_device",
    "pnp_cancel_remove_device",
    "pnp_stop_device",
    "pnp_query_stop_device",
    "pnp_cancel_stop_device",
    "pnp_query_device_relations",
    "pnp_query_interface",
    "pnp_query_capabilities",
    "pnp_query_resources",
    "pnp_query_resource_requirements",
    "pnp_query_device_text",
    "pnp_filter_resource_requirements",
    "pnp_0x0E",
    "pnp_read_config",
    "pnp_write_config",
    "pnp_eject",
    "pnp_set_lock",
    "pnp_query_id",
    "pnp_query_pnp_device_state",
    "pnp_query_bus_information",
    "pnp_device_usage_notification",
    "pnp_surprise_removal",
    "pnp_query_legacy_bus_information",
    "pnp_device_enumerated" >>

\* ARRAYSIZE(pnpmn_functions)
ARRAYSIZE_pnpmn_functions == Len(pnpmn_functions)

\* the minor-function code that the table maps to handler h
MinorOf(h) == (CHOOSE i \in DOMAIN pnpmn_functions : pnpmn_functions[i] = h) - 1

\* the codes delivered: the table's and ExtraMinor codes past its end
MinorFunctions == 0 .. (ARRAYSIZE_pnpmn_functions + ExtraMinor - 1)

\* IoStatus.Information: a null pointer, a string, a bus descriptor or flags
NullInformation == [kind |-> "null", str |-> "", flags |-> {}]
StrInformation(s) == [kind |-> "string", str |-> s, flags |-> {}]
FlagsInformation(f) == IF f = {} THEN NullInformation
                       ELSE [kind |-> "flags", str |-> "", flags |-> f]
BusInformation == [kind |-> "bus_info", str |-> "GUID_BUS_TYPE_USB/PNPBus/1", flags |-> {}]

VARIABLES
    vdev,      \* the node: type, PnPState, PreviousPnPState, intf_ref_cnt, intf_ref_event
    last,      \* the request resolved last: its IRP, the node before and after, the result
    pc,        \* SpecConc: where each thread is inside vhci_pnp
    tirp,      \* SpecConc: the IRP each thread carries
    tseen,     \* SpecConc: what each thread's handler read from the vdev at its check
    tval,      \* SpecConc: the state each thread has read and not yet written back
    fwd,       \* SpecConc: the step just taken handed an IRP to the lower driver
    reg,       \* installer: the UpperFilters and LowerFilters values of the class key
    tool,      \* installer: the classfilter command run last and what it did
    dn,        \* installer: a run of "devnode remove" over the enumerated devices
    urb        \* a bulk or interrupt transfer and what the fetch helper did to it

vars == <<vdev, last, pc, tirp, tseen, tval, fwd, reg, tool, dn, urb>>


\* ------------------------------------------------- completing and forwarding
\* what vhci_pnp returns for one IRP: how it was resolved last, the status
\* returned, IoStatus.Information as the handler left it, and how many
\* times the IRP was completed and how many times it was passed down
Resolved(how, status, information) ==
    [how |-> how, Status |-> status, Information |-> information,
     completions |-> IF how = "completed" THEN 1 ELSE 0,
     forwards |-> IF how = "forwarded" THEN 1 ELSE 0]

\* CompleteRequest(irp, status): set IoStatus.Status, complete, return status
CompleteRequest(irp, status) == Resolved("completed", status, irp.Information)

\* CompleteRequestAsIs(irp): complete with the status the IRP already carries
CompleteRequestAsIs(irp) == Resolved("completed", irp.Status, irp.Information)

\* irp_pass_down(devobj_lower, irp): hand the IRP unchanged to the lower
\* driver and return whatever status it yields
irp_pass_down(irp, env) == Resolved("forwarded", env.lower_status, irp.Information)

\* the lower driver answers only when it is called
NotCalled == "not called"

\* the rule with the test of is_fdo lost: every request is completed
irp_complete_always(vdev_, irp, env) == CompleteRequest(irp, STATUS_SUCCESS)

irp_pass_down_or_complete(vdev_, irp, env) ==
    IF is_fdo(vdev_.type) THEN irp_pass_down(irp, env)
    ELSE CompleteRequest(irp, STATUS_SUCCESS)

\* what a handler hands back: the node as it leaves it, the resolution of
\* the IRP, and how many times it called vhub_unplug_vpdo
Ret(vdev_, res) == [vdev |-> vdev_, res |-> res, unplug |-> 0]

\* --------------------------------------------------------- lifecycle state
\* set_state without line 359: the previous state is not saved
set_state_keep_previous(vdev_, state) == [vdev_ EXCEPT !.PnPState = state]

\* set_state takes no lock: line 359 is a load of PnPState and a store to
\* PreviousPnPState, line 360 a store to PnPState; the two stores are to
\* different fields and a build may emit them in either order
set_state_load(vdev_) == vdev_.PnPState

set_state_save(vdev_, loaded) == [vdev_ EXCEPT !.PreviousPnPState = loaded]

set_state_store(vdev_, state) == [vdev_ EXCEPT !.PnPState = state]

\* set_state run with nothing in between
set_state(vdev_, state) ==
    set_state_store(set_state_save(vdev_, set_state_load(vdev_)), state)

\* what the saved slot holds when it is empty: pnp_state has no value of
\* its own for that, the slot holds what it holds in a new node
EmptySlot == "NotStarted"

\* set_previous_pnp_state (vdev.h): CancelStop and CancelRemove restore the
\* saved state, state = previous_state (spec, section 4.3), and clear the
\* slot (spec, section 3): a load of PreviousPnPState, a store to PnPState
\* and a store to PreviousPnPState
set_previous_pnp_state_load(vdev_) == vdev_.PreviousPnPState

set_previous_pnp_state_store(vdev_, loaded) == [vdev_ EXCEPT !.PnPState = loaded]

set_previous_pnp_state_clear(vdev_) == [vdev_ EXCEPT !.PreviousPnPState = EmptySlot]

\* set_previous_pnp_state run with nothing in between
set_previous_pnp_state(vdev_) ==
    set_previous_pnp_state_clear(
        set_previous_pnp_state_store(vdev_, set_previous_pnp_state_load(vdev_)))

\* KeWaitForSingleObject with a zero timeout: STATUS_SUCCESS (0) when the
\* notification event is signalled, STATUS_TIMEOUT otherwise
KeWaitForSingleObject_zero(event) == IF event THEN 0 ELSE 258

\* whether KeWaitForSingleObject returns to its caller: when the event is
\* signalled or when the timeout has run out
KeWaitForSingleObject_returns(event, timed_out) == event \/ timed_out

\* the wait of line 76 given no timeout: it returns only once the event is
\* signalled
device_can_be_removed_returns_when_signalled(vdev_) ==
    KeWaitForSingleObject_returns(vdev_.intf_ref_event, FALSE)

\* the wait of line 76 has a zero timeout, which has run out at once
device_can_be_removed_returns(vdev_) ==
    KeWaitForSingleObject_returns(vdev_.intf_ref_event, TRUE)

device_can_be_removed(vdev_) == KeWaitForSingleObject_zero(vdev_.intf_ref_event) = 0

\* -------------------------------------------------------------- handlers
pnp_query_stop_device(vdev_, irp, env) ==
    LET v == set_state(vdev_, "StopPending")
    IN  Ret(v, irp_pass_down_or_complete(v, irp, env))

\* the handler without the test of line 55
pnp_cancel_stop_device_unguarded(vdev_, irp, env) ==
    LET v == set_previous_pnp_state(vdev_)
    IN  Ret(v, irp_pass_down_or_complete(v, irp, env))

\* the handler from the point where it has read PnPState == StopPending
pnp_cancel_stop_device_after(stop_pending, vdev_, irp, env) ==
    LET v == IF stop_pending THEN set_previous_pnp_state(vdev_) ELSE vdev_
    IN  Ret(v, irp_pass_down_or_complete(v, irp, env))

pnp_cancel_stop_device(vdev_, irp, env) ==
    pnp_cancel_stop_device_after(vdev_.PnPState = "StopPending", vdev_, irp, env)

pnp_stop_device(vdev_, irp, env) ==
    LET v == set_state(vdev_, "Stopped")
    IN  Ret(v, irp_pass_down_or_complete(v, irp, env))

\* the handler without the gate of line 86
pnp_query_remove_device_unchecked(vdev_, irp, env) ==
    LET v == set_state(vdev_, "RemovePending")
    IN  Ret(v, irp_pass_down_or_complete(v, irp, env))

\* the handler with the state of pnp_query_stop_device pasted in
pnp_query_remove_device_after_wrong_state(can_be_removed, vdev_, irp, env) ==
    IF can_be_removed
    THEN LET v == set_state(vdev_, "StopPending")
         IN  Ret(v, irp_pass_down_or_complete(v, irp, env))
    ELSE Ret(vdev_, CompleteRequest(irp, STATUS_UNSUCCESSFUL))

\* the handler from the point where device_can_be_removed has answered
pnp_query_remove_device_after(can_be_removed, vdev_, irp, env) ==
    IF can_be_removed
    THEN LET v == set_state(vdev_, "RemovePending")
         IN  Ret(v, irp_pass_down_or_complete(v, irp, env))
    ELSE Ret(vdev_, CompleteRequest(irp, STATUS_UNSUCCESSFUL))

pnp_query_remove_device(vdev_, irp, env) ==
    pnp_query_remove_device_after(device_can_be_removed(vdev_), vdev_, irp, env)

\* the handler from the point where it has read PnPState == RemovePending
pnp_cancel_remove_device_after(remove_pending, vdev_, irp, env) ==
    LET v == IF remove_pending THEN set_previous_pnp_state(vdev_) ELSE vdev_
    IN  Ret(v, irp_pass_down_or_complete(v, irp, env))

pnp_cancel_remove_device(vdev_, irp, env) ==
    pnp_cancel_remove_device_after(vdev_.PnPState = "RemovePending", vdev_, irp, env)

\* the handler behind the gate of pnp_query_remove_device
pnp_surprise_removal_gated(vdev_, irp, env) ==
    IF device_can_be_removed(vdev_)
    THEN LET v == set_state(vdev_, "SurpriseRemovePending")
         IN  Ret(v, irp_pass_down_or_complete(v, irp, env))
    ELSE Ret(vdev_, CompleteRequest(irp, STATUS_UNSUCCESSFUL))

pnp_surprise_removal(vdev_, irp, env) ==
    LET v == set_state(vdev_, "SurpriseRemovePending")
    IN  Ret(v, irp_pass_down_or_complete(v, irp, env))

\* the handler leaving a failed allocation to the default rule
pnp_query_bus_information_forwarding(vdev_, irp, env) ==
    IF env.alloc_ok
    THEN Ret(vdev_, CompleteRequest([irp EXCEPT !.Information = BusInformation],
                                    STATUS_SUCCESS))
    ELSE Ret(vdev_, irp_pass_down_or_complete(vdev_, irp, env))

pnp_query_bus_information(vdev_, irp, env) ==
    LET bi == IF env.alloc_ok THEN BusInformation ELSE NullInformation
        st == IF env.alloc_ok THEN STATUS_SUCCESS ELSE STATUS_INSUFFICIENT_RESOURCES
    IN  Ret(vdev_, CompleteRequest([irp EXCEPT !.Information = bi], st))

pnp_0x0E(vdev_, irp, env) == Ret(vdev_, CompleteRequestAsIs(irp))

pnp_read_config(vdev_, irp, env) == Ret(vdev_, CompleteRequestAsIs(irp))

pnp_write_config(vdev_, irp, env) == Ret(vdev_, CompleteRequestAsIs(irp))

\* the handler with the return of line 184 lost: the VPDO branch completes
\* the IRP and runs on into the completion of line 187
pnp_eject_fall_through(vdev_, irp, env) ==
    IF vdev_.type = VDEV_VPDO
    THEN [vdev |-> vdev_,
          res |-> [CompleteRequestAsIs(irp) EXCEPT
                      !.completions = CompleteRequest(irp, STATUS_SUCCESS).completions + @],
          unplug |-> 1]
    ELSE Ret(vdev_, CompleteRequestAsIs(irp))

pnp_eject(vdev_, irp, env) ==
    IF vdev_.type = VDEV_VPDO
    THEN [vdev |-> vdev_, res |-> CompleteRequest(irp, STATUS_SUCCESS), unplug |-> 1]
    ELSE Ret(vdev_, CompleteRequestAsIs(irp))

pnp_set_lock(vdev_, irp, env) == Ret(vdev_, CompleteRequestAsIs(irp))

\* the handler assigning where line 206 ORs: the flags that came are lost
pnp_query_pnp_device_state_assigning(vdev_, irp, env) ==
    LET st == IF vdev_.PnPState = "Removed"
              THEN {"PNP_DEVICE_REMOVED"}
              ELSE irp.Information.flags
    IN  Ret(vdev_, CompleteRequest([irp EXCEPT !.Information = FlagsInformation(st)],
                                   STATUS_SUCCESS))

pnp_query_pnp_device_state(vdev_, irp, env) ==
    LET st == IF vdev_.PnPState = "Removed"
              THEN irp.Information.flags \cup {"PNP_DEVICE_REMOVED"}
              ELSE irp.Information.flags
    IN  Ret(vdev_, CompleteRequest([irp EXCEPT !.Information = FlagsInformation(st)],
                                   STATUS_SUCCESS))

pnp_device_usage_notification(vdev_, irp, env) ==
    Ret(vdev_, irp_pass_down_or_complete(vdev_, irp, env))

pnp_query_legacy_bus_information(vdev_, irp, env) == Ret(vdev_, CompleteRequestAsIs(irp))

pnp_device_enumerated(vdev_, irp, env) == Ret(vdev_, CompleteRequest(irp, STATUS_SUCCESS))

\* copy_str: duplicate s into the status block; nothing changes when the
\* allocation fails
copy_str(s, blk, alloc_ok) ==
    IF alloc_ok THEN [blk EXCEPT !.Information = StrInformation(s), !.Status = STATUS_SUCCESS]
    ELSE blk

pnp_query_device_text(vdev_, irp, env) ==
    IF irp.DeviceTextType \notin {"DeviceTextDescription", "DeviceTextLocationInformation"}
    THEN Ret(vdev_, CompleteRequest(irp, STATUS_INVALID_PARAMETER))
    ELSE
    LET description == irp.DeviceTextType = "DeviceTextDescription"
        prop_str == IF description THEN vdev_desc[vdev_.type] ELSE ""
        \* GetDeviceProperty(vdev->Self, prop, ...), then get_product for a VPDO
        blk1 == IF env.dev_prop # ""
                THEN [irp EXCEPT !.Information = StrInformation(env.dev_prop),
                                 !.Status = STATUS_SUCCESS]
                ELSE IF vdev_.type = VDEV_VPDO /\ description /\ env.product # ""
                THEN copy_str(env.product, irp, env.alloc_ok)
                ELSE irp
        blk2 == IF blk1.Information = NullInformation /\ prop_str # ""
                THEN copy_str(prop_str, blk1, env.alloc_ok2)
                ELSE blk1
    IN  Ret(vdev_, CompleteRequestAsIs(blk2))

\* The handlers that pnp.cpp takes from other files (pnp_start.h, pnp_remove.h,
\* pnp_relations.h, pnp_intf.h, pnp_cap.h, pnp_resources.h, pnp_id.h): a
\* collaborator builds the payload and the IRP is forwarded or completed with
\* the status the collaborator chose (spec, sections 4.3 and 4.4).
collaborator(vdev_, irp, env) ==
    IF env.collab = "forward" /\ is_fdo(vdev_.type) THEN irp_pass_down(irp, env)
    ELSE IF env.collab = "forward" THEN CompleteRequest(irp, STATUS_SUCCESS)
    ELSE CompleteRequest(irp, env.collab)

pnp_start_device(vdev_, irp, env) ==
    LET v == IF env.collab_done THEN [vdev_ EXCEPT !.PnPState = "Started"] ELSE vdev_
    IN  Ret(v, collaborator(v, irp, env))

pnp_remove_device(vdev_, irp, env) ==
    LET v == IF env.collab_done THEN [vdev_ EXCEPT !.PnPState = "Removed"] ELSE vdev_
    IN  Ret(v, collaborator(v, irp, env))

pnp_query_device_relations(vdev_, irp, env) == Ret(vdev_, collaborator(vdev_, irp, env))
pnp_query_interface(vdev_, irp, env) == Ret(vdev_, collaborator(vdev_, irp, env))
pnp_query_capabilities(vdev_, irp, env) == Ret(vdev_, collaborator(vdev_, irp, env))
pnp_query_resources(vdev_, irp, env) == Ret(vdev_, collaborator(vdev_, irp, env))
pnp_query_resource_requirements(vdev_, irp, env) == Ret(vdev_, collaborator(vdev_, irp, env))
pnp_filter_resource_requirements(vdev_, irp, env) == Ret(vdev_, collaborator(vdev_, irp, env))
pnp_query_id(vdev_, irp, env) == Ret(vdev_, collaborator(vdev_, irp, env))

\* ---------------------------------------------------------------- router
\* pnpmn_functions[MinorFunction](vdev, irp)
Call(h, vdev_, irp, env) ==
    CASE h = "pnp_start_device" -> pnp_start_device(vdev_, irp, env)
      [] h = "pnp_query_remove_device" -> pnp_query_remove_device(vdev_, irp, env)
      [] h = "pnp_remove_device" -> pnp_remove_device(vdev_, irp, env)
      [] h = "pnp_cancel_remove_device" -> pnp_cancel_remove_device(vdev_, irp, env)
      [] h = "pnp_stop_device" -> pnp_stop_device(vdev_, irp, env)
      [] h = "pnp_query_stop_device" -> pnp_query_stop_device(vdev_, irp, env)
      [] h = "pnp_cancel_stop_device" -> pnp_cancel_stop_device(vdev_, irp, env)
      [] h = "pnp_query_device_relations" -> pnp_query_device_relations(vdev_, irp, env)
      [] h = "pnp_query_interface" -> pnp_query_interface(vdev_, irp, env)
      [] h = "pnp_query_capabilities" -> pnp_query_capabilities(vdev_, irp, env)
      [] h = "pnp_query_resources" -> pnp_query_resources(vdev_, irp, env)
      [] h = "pnp_query_resource_requirements" ->
             pnp_query_resource_requirements(vdev_, irp, env)
      [] h = "pnp_query_device_text" -> pnp_query_device_text(vdev_, irp, env)
      [] h = "pnp_filter_resource_requirements" ->
             pnp_filter_resource_requirements(vdev_, irp, env)
      [] h = "pnp_0x0E" -> pnp_0x0E(vdev_, irp, env)
      [] h = "pnp_read_config" -> pnp_read_config(vdev_, irp, env)
      [] h = "pnp_write_config" -> pnp_write_config(vdev_, irp, env)
      [] h = "pnp_eject" -> pnp_eject(vdev_, irp, env)
      [] h = "pnp_set_lock" -> pnp_set_lock(vdev_, irp, env)
      [] h = "pnp_query_id" -> pnp_query_id(vdev_, irp, env)
      [] h = "pnp_query_pnp_device_state" -> pnp_query_pnp_device_state(vdev_, irp, env)
      [] h = "pnp_query_bus_information" -> pnp_query_bus_information(vdev_, irp, env)
      [] h = "pnp_device_usage_notification" ->
             pnp_device_usage_notification(vdev_, irp, env)
      [] h = "pnp_surprise_removal" -> pnp_surprise_removal(vdev_, irp, env)
      [] h = "pnp_query_legacy_bus_information" ->
             pnp_query_legacy_bus_information(vdev_, irp, env)
      [] h = "pnp_device_enumerated" -> pnp_device_enumerated(vdev_, irp, env)
      [] OTHER -> Ret(vdev_, CompleteRequestAsIs(irp))

\* what one run of vhci_pnp did: the handler's result, plus the handler that
\* was called ("none" when the router resolved the IRP itself) and the index
\* the table was read at (-1 when it was not read)
Routed(r, handler, index) ==
    [vdev |-> r.vdev, res |-> r.res, unplug |-> r.unplug,
     handler |-> handler, index |-> index]

\* the table entry at index i; reading past the end yields whatever follows
\* the array in memory
TableAt(i) == IF i + 1 \in DOMAIN pnpmn_functions THEN pnpmn_functions[i + 1]
              ELSE "out_of_bounds"

\* the dispatch without the bounds check of line 378
dispatch_no_bounds_check(vdev_, irp, env) ==
    Routed(Call(TableAt(irp.MinorFunction), vdev_, irp, env),
           TableAt(irp.MinorFunction), irp.MinorFunction)

\* the dispatch of a request once the Removed check has been passed
dispatch(vdev_, irp, env) ==
    IF irp.MinorFunction < ARRAYSIZE_pnpmn_functions
    THEN Routed(Call(TableAt(irp.MinorFunction), vdev_, irp, env),
                TableAt(irp.MinorFunction), irp.MinorFunction)
    ELSE Routed(Ret(vdev_, CompleteRequestAsIs(irp)), "none", -1)

\* the router without the check of line 376
vhci_pnp_no_removed_check(vdev_, irp, env) == dispatch(vdev_, irp, env)

vhci_pnp(vdev_, irp, env) ==
    IF vdev_.PnPState = "Removed"
    THEN Routed(Ret(vdev_, CompleteRequest(irp, STATUS_NO_SUCH_DEVICE)), "none", -1)
    ELSE dispatch(vdev_, irp, env)

\* ---------------------------------------------------------------- inputs
\* the status a PnP IRP arrives with: the PnP manager sets STATUS_NOT_SUPPORTED
\* (pnp_read_config and pnp_write_config assert it)
IrpStatusIn == {STATUS_NOT_SUPPORTED}

LowerStatuses == {STATUS_SUCCESS, STATUS_UNSUCCESSFUL}

DeviceTextTypes == {"DeviceTextDescription", "DeviceTextLocationInformation",
                    "DeviceTextOther"}

\* the IRPs delivered with minor function mn
Irps(mn) ==
    {[MinorFunction |-> mn, Status |-> st, Information |-> inf, DeviceTextType |-> tt] :
        st \in IrpStatusIn,
        inf \in IF mn = MinorOf("pnp_query_pnp_device_state")
                THEN {NullInformation, FlagsInformation({"PNP_DEVICE_FAILED"})}
                ELSE {NullInformation},
        tt \in IF mn = MinorOf("pnp_query_device_text") THEN DeviceTextTypes
               ELSE {"DeviceTextDescription"}}

Collaborating == {MinorOf(h) : h \in
    {"pnp_start_device", "pnp_remove_device", "pnp_query_device_relations",
     "pnp_query_interface", "pnp_query_capabilities", "pnp_query_resources",
     "pnp_query_resource_requirements", "pnp_filter_resource_requirements",
     "pnp_query_id"}}

\* what the allocator and the collaborators answer to a request with minor
\* function mn on a node of the given type; the lower driver's answer is
\* drawn when the request is passed down
Envs(mn, type) ==
    {[lower_status |-> NotCalled, alloc_ok |-> a1, alloc_ok2 |-> a2, dev_prop |-> dp,
      product |-> pr, collab |-> co, collab_done |-> cd] :
        a1 \in IF mn \in {MinorOf("pnp_query_bus_information"),
                          MinorOf("pnp_query_device_text")} THEN BOOLEAN ELSE {TRUE},
        a2 \in IF mn = MinorOf("pnp_query_device_text") THEN BOOLEAN ELSE {TRUE},
        dp \in IF mn = MinorOf("pnp_query_device_text") THEN {"", "registry text"}
               ELSE {""},
        pr \in IF mn = MinorOf("pnp_query_device_text") /\ type = VDEV_VPDO
               THEN {"", "product"} ELSE {""},
        co \in IF mn \in Collaborating
               THEN {"forward", STATUS_SUCCESS, STATUS_UNSUCCESSFUL} ELSE {"forward"},
        cd \in IF mn \in {MinorOf("pnp_start_device"), MinorOf("pnp_remove_device")}
               THEN BOOLEAN ELSE {FALSE}}

\* the answers of the lower driver to a request that vhci_pnp resolves as r
LowerAnswers(r) == IF r.res.how = "forwarded" THEN LowerStatuses ELSE {NotCalled}

\* ----------------------------------------------------------------- state
\* a thread that holds no loaded state
NoState == "none"

NoIrp == [MinorFunction |-> -1, Status |-> STATUS_NOT_SUPPORTED,
          Information |-> NullInformation, DeviceTextType |-> "DeviceTextDescription"]

NoEnv == [lower_status |-> NotCalled, alloc_ok |-> TRUE, alloc_ok2 |-> TRUE,
          dev_prop |-> "", product |-> "", collab |-> "forward", collab_done |-> FALSE]

NewVdev(type) == [type |-> type, PnPState |-> "NotStarted",
                  PreviousPnPState |-> EmptySlot,
                  intf_ref_cnt |-> 0, intf_ref_event |-> TRUE]

\* what a record keeps of the node: its lifecycle fields, whether its
\* interface was referenced and whether the event was signalled
Snapshot(v) == [type |-> v.type, PnPState |-> v.PnPState,
                PreviousPnPState |-> v.PreviousPnPState,
                referenced |-> v.intf_ref_cnt > 0, signalled |-> v.intf_ref_event]

\* the record of one resolved request: the IRP's minor function and the
\* status it arrived with, the status the lower driver answered, the node
\* before and after, by how much the handler changed the reference count,
\* and what vhci_pnp did
Record(irp, env, pre, r) ==
    [MinorFunction |-> irp.MinorFunction, Status |-> irp.Status,
     lower_status |-> env.lower_status, pre |-> Snapshot(pre), post |-> Snapshot(r.vdev),
     ref_delta |-> r.vdev.intf_ref_cnt - pre.intf_ref_cnt,
     res |-> r.res, unplug |-> r.unplug, handler |-> r.handler, index |-> r.index]

NoRecord(v) == Record(NoIrp, NoEnv, v,
                      Routed(Ret(v, CompleteRequestAsIs(NoIrp)), "none", -1))

Threads == 1 .. NThreads

\* ============================================================ installer
\* The command-line tool that installs the drivers: its classfilter and
\* devnode subcommands. A string is a sequence of characters and NUL ends
\* it; a REG_MULTI_SZ value is a run of such strings ended by one more NUL.
NUL == "NUL"

MaxFilters == 3      \* most names the two filter lists hold together
MaxDevices == 2      \* most devices the enumeration yields

\* filter driver names, one of them a prefix of another
DriverNames == {<<"u">>, <<"u", "f">>, <<"f">>}

opt_upper == "upper"
Levels == {opt_upper, "lower"}
ClassNames == {"USB"}

REGSTR_VAL_UPPERFILTERS == "UpperFilters"
REGSTR_VAL_LOWERFILTERS == "LowerFilters"

\* std::wstring_view(str): the characters of the buffer before its first NUL
CStr(str) ==
    LET nul == {i \in 1 .. Len(str) : str[i] = NUL}
        n == IF nul = {} THEN Len(str) + 1
             ELSE CHOOSE i \in nul : \A j \in nul : i <= j
    IN  SubSeq(str, 1, n - 1)

\* make_multi_sz (libusbip): every string followed by NUL, then the NUL that
\* ends the list
RECURSIVE make_multi_sz(_)
make_multi_sz(v) ==
    IF v = <<>> THEN <<NUL>> ELSE v[1] \o <<NUL>> \o make_multi_sz(Tail(v))

\* the strings of a multi-string buffer other than exclude, in their order;
\* excluded becomes true when exclude was among them. A null or empty buffer
\* holds no string.
RECURSIVE split_multi_sz(_, _, _)
split_multi_sz(str, exclude, excluded) ==
    IF str = <<>> \/ Head(str) = NUL
    THEN [v |-> <<>>, excluded |-> excluded]
    ELSE LET s == CStr(str)
             rest == split_multi_sz(SubSeq(str, Len(s) + 2, Len(str)), exclude,
                                    excluded \/ s = exclude)
         IN  IF s = exclude THEN rest
             ELSE [v |-> <<s>> \o rest.v, excluded |-> rest.excluded]

make_hwid(hwid) == hwid \o <<NUL, NUL>>

\* a registry value that does not exist, and one that holds data
NoValue == [present |-> FALSE, data |-> <<>>]
Value(data) == [present |-> TRUE, data |-> data]

\* read_multi_z: the data of the value, an empty vector when the value does
\* not exist (ERROR_FILE_NOT_FOUND), failure on any other error
read_multi_z(value, reg_get_value_fails) ==
    IF reg_get_value_fails THEN [ok |-> FALSE, val |-> <<>>]
    ELSE IF ~value.present THEN [ok |-> TRUE, val |-> <<>>]
    ELSE [ok |-> TRUE, val |-> value.data]

\* the calls of classfilter that can fail
ClassfilterFailures == {"none", "SetupDiClassGuidsFromName", "SetupDiOpenClassRegKeyEx",
                        "RegGetValue", "RegSetValueEx"}

\* what a run of classfilter hands back: its return value, whether it got to
\* read the value, how many times it called RegSetValueEx, and the registry
\* as it leaves it
Ran(ret, read, writes, reg_) == [ret |-> ret, read |-> read, writes |-> writes, reg |-> reg_]

\* classfilter that sets the value whether or not the list was modified
classfilter_always_write(reg_, r, add, fail) ==
    LET val_name == IF r.level = opt_upper THEN REGSTR_VAL_UPPERFILTERS
                    ELSE REGSTR_VAL_LOWERFILTERS
        rd == read_multi_z(reg_[val_name], fail = "RegGetValue")
        sp == split_multi_sz(rd.val, r.driver_name, add)
        filters == IF add THEN Append(sp.v, r.driver_name) ELSE sp.v
    IN  IF fail \in {"SetupDiClassGuidsFromName", "SetupDiOpenClassRegKeyEx"}
        THEN Ran(FALSE, FALSE, 0, reg_)
        ELSE IF ~rd.ok THEN Ran(FALSE, FALSE, 0, reg_)
        ELSE IF fail = "RegSetValueEx" THEN Ran(FALSE, TRUE, 1, reg_)
        ELSE Ran(TRUE, TRUE, 1, [reg_ EXCEPT ![val_name] = Value(make_multi_sz(filters))])

classfilter(reg_, r, add, fail) ==
    LET val_name == IF r.level = opt_upper THEN REGSTR_VAL_UPPERFILTERS
                    ELSE REGSTR_VAL_LOWERFILTERS
        rd == read_multi_z(reg_[val_name], fail = "RegGetValue")
        \* auto modified = add
        sp == split_multi_sz(rd.val, r.driver_name, add)
        filters == IF add THEN Append(sp.v, r.driver_name) ELSE sp.v
        modified == sp.excluded
    IN  IF fail \in {"SetupDiClassGuidsFromName", "SetupDiOpenClassRegKeyEx"}
        THEN Ran(FALSE, FALSE, 0, reg_)
        ELSE IF ~rd.ok THEN Ran(FALSE, FALSE, 0, reg_)
        ELSE IF ~modified THEN Ran(TRUE, TRUE, 0, reg_)
        ELSE IF fail = "RegSetValueEx" THEN Ran(FALSE, TRUE, 1, reg_)
        ELSE Ran(TRUE, TRUE, 1, [reg_ EXCEPT ![val_name] = Value(make_multi_sz(filters))])

\* the hardware id given to "devnode remove" and another one
HardwareId == <<"h">>
OtherId == <<"o">>

\* what the enumeration can yield at one index: SetupDiEnumDeviceInfo
\* failing; a device whose hardware ids cannot be read; devices with no id,
\* with another id, with the given id among others; and devices with the
\* given id alone, for each outcome of reading the instance id and of
\* DiUninstallDevice
DeviceInfos ==
    {[enum_ok |-> e, prop_ok |-> p, hwids |-> <<>>, id_ok |-> TRUE,
      uninstall_ok |-> TRUE, NeedReboot |-> TRUE] :
        e \in BOOLEAN, p \in {FALSE}}
    \cup
    {[enum_ok |-> TRUE, prop_ok |-> TRUE, hwids |-> h, id_ok |-> TRUE,
      uninstall_ok |-> TRUE, NeedReboot |-> TRUE] :
        h \in {<<>>, <<OtherId>>, <<HardwareId, OtherId>>}}
    \cup
    {[enum_ok |-> TRUE, prop_ok |-> TRUE, hwids |-> <<HardwareId>>, id_ok |-> i,
      uninstall_ok |-> u, NeedReboot |-> n] :
        i \in BOOLEAN, u \in BOOLEAN, n \in BOOLEAN}

\* DEVPKEY_Device_HardwareIds as bytes: the string list as a multi-string,
\* nothing at all for an empty list
HardwareIdsProperty(info) == IF info.hwids = <<>> THEN <<>> ELSE make_multi_sz(info.hwids)

\* what one call of uninstall_device hands back: its return value (true
\* would stop the enumeration), the reboot flag, whether DiUninstallDevice
\* was called and the instance ids printed
Visited(reboot, calls, printed) ==
    [ret |-> FALSE, reboot |-> reboot, calls |-> calls, printed |-> printed]

\* uninstall_device that does not look at dry_run
uninstall_device_ignore_dry_run(dd, r, reboot) ==
    LET prop == IF dd.info.prop_ok THEN HardwareIdsProperty(dd.info) ELSE <<>>
    IN  IF ~dd.info.prop_ok \/ prop = <<>> THEN Visited(reboot, 0, <<>>)
        ELSE IF prop # r.hwid THEN Visited(reboot, 0, <<>>)
        ELSE IF ~dd.info.uninstall_ok THEN Visited(reboot, 1, <<>>)
        ELSE IF dd.info.NeedReboot THEN Visited(TRUE, 1, <<>>)
        ELSE Visited(reboot, 1, <<>>)

uninstall_device(dd, r, reboot) ==
    LET prop == IF dd.info.prop_ok THEN HardwareIdsProperty(dd.info) ELSE <<>>
    IN  IF ~dd.info.prop_ok \/ prop = <<>> THEN Visited(reboot, 0, <<>>)
        ELSE IF prop # r.hwid THEN Visited(reboot, 0, <<>>)
        ELSE IF r.dry_run
        THEN Visited(reboot, 0, IF dd.info.id_ok THEN <<dd.InstanceId>> ELSE <<>>)
        ELSE IF ~dd.info.uninstall_ok THEN Visited(reboot, 1, <<>>)
        ELSE IF dd.info.NeedReboot THEN Visited(TRUE, 1, <<>>)
        ELSE Visited(reboot, 1, <<>>)

\* the sequences over S of length at most n
SeqsUpTo(S, n) == UNION {[1 .. k -> S] : k \in 0 .. n}

\* no classfilter command has been run
NoTool == [cmd |-> "none", level |-> opt_upper, class_name |-> "USB", driver_name |-> <<>>,
           ret |-> TRUE, read |-> FALSE, writes |-> 0, run |-> 0]

\* no "devnode remove" is running
Devnode(devices, dry_run, pc_) ==
    [devices |-> devices, hwid |-> HardwareId, dry_run |-> dry_run, pc |-> pc_,
     i |-> 0, stopped |-> FALSE, calls |-> 0, printed |-> <<>>, reboot |-> FALSE,
     prompted |-> FALSE, ret |-> TRUE]

NoDevnode == Devnode(<<>>, FALSE, "idle")

\* ======================================================= transfer fetch
\* fetch_urbr_bulk_or_interrupt (part_001): the response to a bulk or
\* interrupt transfer is copied into the transfer buffer of its URB.
MaxTransfer == 3     \* longest transfer buffer and longest response

TransferFlagBits == {"USBD_TRANSFER_DIRECTION_IN", "USBD_SHORT_TRANSFER_OK"}

\* IS_TRANSFER_FLAGS_IN: the direction bit is set, whatever the other bits
IS_TRANSFER_FLAGS_IN(TransferFlags) == "USBD_TRANSFER_DIRECTION_IN" \in TransferFlags

\* the statuses copy_to_transfer_buffer can return
CopyStatuses == {STATUS_SUCCESS, STATUS_INSUFFICIENT_RESOURCES, STATUS_INVALID_PARAMETER}

\* copy_to_transfer_buffer: one call of the copy, which yields the status
\* the copy ends with
copy_to_transfer_buffer(copy_status) == [status |-> copy_status, copies |-> 1]

\* what the helper hands back: the status, the URB's TransferBufferLength
\* as it leaves it and how many times it called the copy
Fetched(status, TransferBufferLength, copies) ==
    [status |-> status, TransferBufferLength |-> TransferBufferLength, copies |-> copies]

\* the helper without the test of the copy's status
fetch_urbr_bulk_or_interrupt_unchecked(urb_bi, hdr, copy_status) ==
    IF IS_TRANSFER_FLAGS_IN(urb_bi.TransferFlags)
    THEN LET c == copy_to_transfer_buffer(copy_status)
         IN  Fetched(c.status, hdr.actual_length, c.copies)
    ELSE Fetched(STATUS_SUCCESS, urb_bi.TransferBufferLength, 0)

fetch_urbr_bulk_or_interrupt(urb_bi, hdr, copy_status) ==
    IF IS_TRANSFER_FLAGS_IN(urb_bi.TransferFlags)
    THEN LET c == copy_to_transfer_buffer(copy_status)
         IN  IF c.status = STATUS_SUCCESS
             THEN Fetched(c.status, hdr.actual_length, c.copies)
             ELSE Fetched(c.status, urb_bi.TransferBufferLength, c.copies)
    ELSE Fetched(STATUS_SUCCESS, urb_bi.TransferBufferLength, 0)

\* a transfer as it is submitted, before any response came
Transfer(TransferFlags, TransferBufferLength) ==
    [TransferFlags |-> TransferFlags, TransferBufferLength |-> TransferBufferLength,
     fetched |-> FALSE, before |-> TransferBufferLength, actual_length |-> 0,
     copy_status |-> NotCalled, status |-> STATUS_SUCCESS, copies |-> 0]

NoTransfer == Transfer({}, 0)

NoFilters == [n \in {REGSTR_VAL_UPPERFILTERS, REGSTR_VAL_LOWERFILTERS} |-> NoValue]

InstallerIdle ==
    /\ reg = NoFilters
    /\ tool = NoTool
    /\ dn = NoDevnode
    /\ urb = NoTransfer

Init ==
    /\ \E type \in VdevTypes : vdev = NewVdev(type)
    /\ last = NoRecord(vdev)
    /\ pc = [t \in Threads |-> "idle"]
    /\ tirp = [t \in Threads |-> NoIrp]
    /\ tseen = [t \in Threads |-> FALSE]
    /\ tval = [t \in Threads |-> NoState]
    /\ fwd = FALSE
    /\ InstallerIdle

\* one request delivered to the node and resolved by vhci_pnp
Pnp ==
    \E mn \in MinorFunctions : \E irp \in Irps(mn) : \E env0 \in Envs(mn, vdev.type) :
    \E ls \in LowerAnswers(vhci_pnp(vdev, irp, env0)) :
        LET env == [env0 EXCEPT !.lower_status = ls]
            r == vhci_pnp(vdev, irp, env)
        IN  /\ vdev' = r.vdev
            /\ last' = Record(irp, env, vdev, r)
            /\ UNCHANGED <<pc, tirp, tseen, tval, fwd, reg, tool, dn, urb>>

\* a user of the node's interface takes a reference (spec, section 4.5): the
\* count goes up and the event stops being signalled
InterfaceReference ==
    /\ vdev.intf_ref_cnt < MaxRef
    /\ vdev' = [vdev EXCEPT !.intf_ref_cnt = @ + 1, !.intf_ref_event = FALSE]
    /\ fwd' = FALSE
    /\ UNCHANGED <<last, pc, tirp, tseen, tval, reg, tool, dn, urb>>

\* a user releases its reference: the event is signalled when the count
\* returns to zero
InterfaceDereference ==
    /\ vdev.intf_ref_cnt > 0
    /\ vdev' = [vdev EXCEPT !.intf_ref_cnt = @ - 1,
                            !.intf_ref_event = (vdev.intf_ref_cnt = 1)]
    /\ fwd' = FALSE
    /\ UNCHANGED <<last, pc, tirp, tseen, tval, reg, tool, dn, urb>>

Next == Pnp \/ InterfaceReference \/ InterfaceDereference

Spec == Init /\ [][Next]_vars

\* ------------------------------------------------ requests with their inputs
\* The requests delivered in SpecQuery: those that move the node through its
\* states and those that ask the node for information.
QueryMinors == {MinorOf(h) : h \in
    {"pnp_start_device", "pnp_query_remove_device", "pnp_remove_device",
     "pnp_stop_device", "pnp_query_stop_device", "pnp_cancel_stop_device",
     "pnp_surprise_removal", "pnp_query_device_text",
     "pnp_query_bus_information", "pnp_query_pnp_device_state"}}

\* the record of one resolved request together with what the request asked
\* for and what the allocator, the device property and the product string were
QRecord(irp, env, pre, r) ==
    [MinorFunction |-> irp.MinorFunction, Status |-> irp.Status,
     lower_status |-> env.lower_status, pre |-> Snapshot(pre), post |-> Snapshot(r.vdev),
     ref_delta |-> r.vdev.intf_ref_cnt - pre.intf_ref_cnt,
     res |-> r.res, unplug |-> r.unplug, handler |-> r.handler, index |-> r.index,
     InformationIn |-> irp.Information, DeviceTextType |-> irp.DeviceTextType,
     dev_prop |-> env.dev_prop, product |-> env.product,
     alloc_ok |-> env.alloc_ok, alloc_ok2 |-> env.alloc_ok2]

InitQuery ==
    /\ \E type \in VdevTypes : vdev = NewVdev(type)
    /\ last = QRecord(NoIrp, NoEnv, vdev,
                      Routed(Ret(vdev, CompleteRequestAsIs(NoIrp)), "none", -1))
    /\ pc = [t \in Threads |-> "idle"]
    /\ tirp = [t \in Threads |-> NoIrp]
    /\ tseen = [t \in Threads |-> FALSE]
    /\ tval = [t \in Threads |-> NoState]
    /\ fwd = FALSE
    /\ InstallerIdle

\* one request delivered to the node and resolved by vhci_pnp
PnpQuery ==
    \E mn \in QueryMinors : \E irp \in Irps(mn) : \E env0 \in Envs(mn, vdev.type) :
    \E ls \in LowerAnswers(vhci_pnp(vdev, irp, env0)) :
        LET env == [env0 EXCEPT !.lower_status = ls]
            r == vhci_pnp(vdev, irp, env)
        IN  /\ vdev' = r.vdev
            /\ last' = QRecord(irp, env, vdev, r)
            /\ UNCHANGED <<pc, tirp, tseen, tval, fwd, reg, tool, dn, urb>>

NextQuery == PnpQuery \/ InterfaceReference \/ InterfaceDereference

SpecQuery == InitQuery /\ [][NextQuery]_vars

\* --------------------------------------------- handlers entered directly
\* SpecEntered is SpecQuery with one more way for a request to be resolved:
\* a run of vhci_pnp that read the state at line 376 before another request
\* changed it, so that the handler of QueryPnpDeviceState is entered on the
\* node as it is now. Each record tells by which of the two ways it came.
HRecord(entry, irp, env, pre, r) ==
    LET q == QRecord(irp, env, pre, r)
    IN  [f \in DOMAIN q \cup {"entry"} |-> IF f = "entry" THEN entry ELSE q[f]]

InitEntered ==
    /\ \E type \in VdevTypes : vdev = NewVdev(type)
    /\ last = HRecord("none", NoIrp, NoEnv, vdev,
                      Routed(Ret(vdev, CompleteRequestAsIs(NoIrp)), "none", -1))
    /\ pc = [t \in Threads |-> "idle"]
    /\ tirp = [t \in Threads |-> NoIrp]
    /\ tseen = [t \in Threads |-> FALSE]
    /\ tval = [t \in Threads |-> NoState]
    /\ fwd = FALSE
    /\ InstallerIdle

\* one request delivered to the node and resolved by vhci_pnp
PnpRouted ==
    \E mn \in QueryMinors : \E irp \in Irps(mn) : \E env0 \in Envs(mn, vdev.type) :
    \E ls \in LowerAnswers(vhci_pnp(vdev, irp, env0)) :
        LET env == [env0 EXCEPT !.lower_status = ls]
            r == vhci_pnp(vdev, irp, env)
        IN  /\ vdev' = r.vdev
            /\ last' = HRecord("vhci_pnp", irp, env, vdev, r)
            /\ UNCHANGED <<pc, tirp, tseen, tval, fwd, reg, tool, dn, urb>>

\* QueryPnpDeviceState dispatched (line 379) on the node as it is now
HandlerEntered ==
    \E irp \in Irps(MinorOf("pnp_query_pnp_device_state")) :
    \E env \in Envs(irp.MinorFunction, vdev.type) :
        LET r == dispatch(vdev, irp, env)
        IN  /\ vdev' = r.vdev
            /\ last' = HRecord("handler", irp, env, vdev, r)
            /\ UNCHANGED <<pc, tirp, tseen, tval, fwd, reg, tool, dn, urb>>

NextEntered == PnpRouted \/ HandlerEntered \/ InterfaceReference \/ InterfaceDereference

SpecEntered == InitEntered /\ [][NextEntered]_vars

\* ------------------------------------------------- concurrent delivery
\* The requests delivered concurrently: the lifecycle requests and the
\* device-usage notification.
ConcMinors == {MinorOf(h) : h \in
    {"pnp_start_device", "pnp_query_remove_device", "pnp_remove_device",
     "pnp_cancel_remove_device", "pnp_stop_device", "pnp_query_stop_device",
     "pnp_cancel_stop_device", "pnp_surprise_removal",
     "pnp_device_usage_notification"}}

\* the handlers that read the node and act on what they read afterwards
Guarded == {"pnp_query_remove_device", "pnp_cancel_stop_device",
            "pnp_cancel_remove_device"}

\* the handlers that call set_state (lines 45, 68, 87 and 114)
SetStateCallers == {"pnp_query_stop_device", "pnp_stop_device",
                    "pnp_query_remove_device", "pnp_surprise_removal"}

\* the state each of them passes to set_state
StateSetBy(h) ==
    CASE h = "pnp_query_stop_device" -> "StopPending"
      [] h = "pnp_stop_device" -> "Stopped"
      [] h = "pnp_query_remove_device" -> "RemovePending"
      [] h = "pnp_surprise_removal" -> "SurpriseRemovePending"

\* the handler thread t has been dispatched to
HandlerOf(t) == TableAt(tirp[t].MinorFunction)

\* what a guarded handler reads from the node before it acts
GuardRead(h, vdev_) ==
    CASE h = "pnp_query_remove_device" -> device_can_be_removed(vdev_)
      [] h = "pnp_cancel_stop_device" -> vdev_.PnPState = "StopPending"
      [] h = "pnp_cancel_remove_device" -> vdev_.PnPState = "RemovePending"

\* a guarded handler from the point where it has read seen
GuardedAfter(h, seen, vdev_, irp, env) ==
    CASE h = "pnp_query_remove_device" ->
             pnp_query_remove_device_after(seen, vdev_, irp, env)
      [] h = "pnp_cancel_stop_device" ->
             pnp_cancel_stop_device_after(seen, vdev_, irp, env)
      [] h = "pnp_cancel_remove_device" ->
             pnp_cancel_remove_device_after(seen, vdev_, irp, env)

\* thread t moves to the point at inside its handler, holding loaded
ConcGo(t, at, loaded) ==
    /\ pc' = [pc EXCEPT ![t] = at]
    /\ tval' = [tval EXCEPT ![t] = loaded]
    /\ fwd' = FALSE
    /\ UNCHANGED <<last, tirp, tseen, reg, tool, dn, urb>>

\* thread t leaves vhci_pnp with its request resolved as res
ConcLeave(t, res) ==
    /\ fwd' = (res.how = "forwarded")
    /\ pc' = [pc EXCEPT ![t] = "idle"]
    /\ tirp' = [tirp EXCEPT ![t] = NoIrp]
    /\ tseen' = [tseen EXCEPT ![t] = FALSE]
    /\ tval' = [tval EXCEPT ![t] = NoState]
    /\ UNCHANGED <<last, reg, tool, dn, urb>>

\* vhci_pnp is entered with a request: the state is read (line 376); a
\* request to a removed node is completed at once, any other is dispatched
ConcEnter(t) ==
    /\ pc[t] = "idle"
    /\ \E mn \in ConcMinors : \E irp \in Irps(mn) :
         IF vdev.PnPState = "Removed"
         THEN /\ ConcLeave(t, CompleteRequest(irp, STATUS_NO_SUCH_DEVICE))
              /\ UNCHANGED vdev
         ELSE /\ pc' = [pc EXCEPT ![t] = "dispatched"]
              /\ tirp' = [tirp EXCEPT ![t] = irp]
              /\ fwd' = FALSE
              /\ UNCHANGED <<vdev, last, tseen, tval, reg, tool, dn, urb>>

\* whether the read of a guarded handler returns: only the gate of
\* QueryRemove waits on anything
GuardReturns(h, vdev_) ==
    h = "pnp_query_remove_device" => device_can_be_removed_returns(vdev_)

\* a guarded handler reads the node
ConcCheck(t) ==
    /\ pc[t] = "dispatched"
    /\ HandlerOf(t) \in Guarded
    /\ GuardReturns(HandlerOf(t), vdev)
    /\ tseen' = [tseen EXCEPT ![t] = GuardRead(HandlerOf(t), vdev)]
    /\ pc' = [pc EXCEPT ![t] = "act"]
    /\ fwd' = FALSE
    /\ UNCHANGED <<vdev, last, tirp, tval, reg, tool, dn, urb>>

\* a guarded handler acts on what it read: when the read said no it resolves
\* the request and touches nothing; when it said yes QueryRemove enters
\* set_state and loads PnPState, a cancel enters set_previous_pnp_state and
\* loads PreviousPnPState
ConcAct(t) ==
    /\ pc[t] = "act"
    /\ IF ~tseen[t]
       THEN /\ \E env0 \in Envs(tirp[t].MinorFunction, vdev.type) :
               \E ls \in LowerAnswers(GuardedAfter(HandlerOf(t), FALSE, vdev, tirp[t], env0)) :
                 ConcLeave(t, GuardedAfter(HandlerOf(t), FALSE, vdev, tirp[t],
                                           [env0 EXCEPT !.lower_status = ls]).res)
            /\ UNCHANGED vdev
       ELSE /\ IF HandlerOf(t) \in SetStateCallers
               THEN ConcGo(t, "loaded", set_state_load(vdev))
               ELSE ConcGo(t, "restoring", set_previous_pnp_state_load(vdev))
            /\ UNCHANGED vdev

\* any other handler starts: one that calls set_state enters it and loads
\* PnPState; the others make at most one store and resolve the request
ConcRun(t) ==
    /\ pc[t] = "dispatched"
    /\ HandlerOf(t) \notin Guarded
    /\ IF HandlerOf(t) \in SetStateCallers
       THEN /\ ConcGo(t, "loaded", set_state_load(vdev))
            /\ UNCHANGED vdev
       ELSE \E env0 \in Envs(tirp[t].MinorFunction, vdev.type) :
            \E ls \in LowerAnswers(dispatch(vdev, tirp[t], env0)) :
              LET r == dispatch(vdev, tirp[t], [env0 EXCEPT !.lower_status = ls])
              IN  /\ ConcLeave(t, r.res)
                  /\ vdev' = r.vdev

\* The two stores of set_state are unordered against each other for any
\* other thread: nothing in lines 359-360 fixes the order the build emits
\* them in. After the load either store comes first.
\* set_state stores what it loaded to PreviousPnPState (line 359), before
\* or after the store of line 360
ConcSave(t) ==
    /\ pc[t] \in {"loaded", "set"}
    /\ vdev' = set_state_save(vdev, tval[t])
    /\ ConcGo(t, IF pc[t] = "loaded" THEN "saved" ELSE "stored", NoState)

\* set_state stores the new state to PnPState (line 360), after or before
\* the store of line 359
ConcStore(t) ==
    /\ pc[t] \in {"loaded", "saved"}
    /\ vdev' = set_state_store(vdev, StateSetBy(HandlerOf(t)))
    /\ IF pc[t] = "loaded" THEN ConcGo(t, "set", tval[t])
       ELSE ConcGo(t, "stored", NoState)

\* set_previous_pnp_state stores what it loaded to PnPState, before or
\* after it clears the slot
ConcRestore(t) ==
    /\ pc[t] \in {"restoring", "cleared"}
    /\ vdev' = set_previous_pnp_state_store(vdev, tval[t])
    /\ ConcGo(t, IF pc[t] = "restoring" THEN "restored" ELSE "stored", NoState)

\* set_previous_pnp_state clears the slot, after or before its store to
\* PnPState
ConcClear(t) ==
    /\ pc[t] \in {"restoring", "restored"}
    /\ vdev' = set_previous_pnp_state_clear(vdev)
    /\ IF pc[t] = "restoring" THEN ConcGo(t, "cleared", tval[t])
       ELSE ConcGo(t, "stored", NoState)

\* the handler, its stores made, resolves the request by
\* irp_pass_down_or_complete
ConcResolve(t) ==
    /\ pc[t] = "stored"
    /\ \E env0 \in Envs(tirp[t].MinorFunction, vdev.type) :
       \E ls \in LowerAnswers(Ret(vdev, irp_pass_down_or_complete(vdev, tirp[t], env0))) :
         ConcLeave(t, irp_pass_down_or_complete(vdev, tirp[t],
                                                [env0 EXCEPT !.lower_status = ls]))
    /\ UNCHANGED vdev

\* a step of thread t inside vhci_pnp
ThreadStep(t) ==
    \/ ConcCheck(t)
    \/ ConcAct(t)
    \/ ConcRun(t)
    \/ ConcSave(t)
    \/ ConcStore(t)
    \/ ConcRestore(t)
    \/ ConcClear(t)
    \/ ConcResolve(t)

NextConc ==
    \/ \E t \in Threads : ConcEnter(t)
    \/ \E t \in Threads : ConcCheck(t)
    \/ \E t \in Threads : ConcAct(t)
    \/ \E t \in Threads : ConcRun(t)
    \/ \E t \in Threads : ConcSave(t)
    \/ \E t \in Threads : ConcStore(t)
    \/ \E t \in Threads : ConcRestore(t)
    \/ \E t \in Threads : ConcClear(t)
    \/ \E t \in Threads : ConcResolve(t)
    \/ InterfaceReference
    \/ InterfaceDereference

SpecConc == Init /\ [][NextConc]_vars

\* ------------------------------------------------- progress of a request
\* One thread delivers requests while users of the interface take and
\* release references. The thread, once inside vhci_pnp, keeps running;
\* nothing obliges a user of the interface ever to release its reference.
LiveThread == CHOOSE t \in Threads : \A u \in Threads : t <= u

NextLive ==
    \/ ConcEnter(LiveThread)
    \/ ConcCheck(LiveThread)
    \/ ConcAct(LiveThread)
    \/ ConcRun(LiveThread)
    \/ ConcSave(LiveThread)
    \/ ConcStore(LiveThread)
    \/ ConcRestore(LiveThread)
    \/ ConcClear(LiveThread)
    \/ ConcResolve(LiveThread)
    \/ InterfaceReference
    \/ InterfaceDereference

SpecLive == Init /\ [][NextLive]_vars /\ WF_vars(ThreadStep(LiveThread))


\* ------------------------------------------------------ classfilter runs
\* the driver is left alone while the installer runs
DriverIdle ==
    /\ vdev = NewVdev(VDEV_ROOT)
    /\ last = NoRecord(vdev)
    /\ pc = [t \in Threads |-> "idle"]
    /\ tirp = [t \in Threads |-> NoIrp]
    /\ tseen = [t \in Threads |-> FALSE]
    /\ tval = [t \in Threads |-> NoState]
    /\ fwd = FALSE

\* the filter names a registry value holds
Filters(value) == split_multi_sz(read_multi_z(value, FALSE).val, <<>>, FALSE).v

ValueName(level) == IF level = opt_upper THEN REGSTR_VAL_UPPERFILTERS
                    ELSE REGSTR_VAL_LOWERFILTERS

ClassfilterArgs ==
    {[level |-> l, class_name |-> c, driver_name |-> d] :
        l \in Levels, c \in ClassNames, d \in DriverNames}

\* the class key starts with any list of upper filters, or none, and no
\* lower filters
InitFilter ==
    /\ DriverIdle
    /\ \E v \in {NoValue} \cup {Value(make_multi_sz(f)) : f \in SeqsUpTo(DriverNames, MaxFilters)} :
         reg = [NoFilters EXCEPT ![REGSTR_VAL_UPPERFILTERS] = v]
    /\ tool = NoTool
    /\ dn = NoDevnode
    /\ urb = NoTransfer

\* one run of "classfilter add" (add) or "classfilter remove"
Classfilter(add) ==
    \E r \in ClassfilterArgs : \E fail \in ClassfilterFailures :
        LET c == classfilter(reg, r, add, fail)
        IN  /\ Len(Filters(c.reg[REGSTR_VAL_UPPERFILTERS]))
                 + Len(Filters(c.reg[REGSTR_VAL_LOWERFILTERS])) <= MaxFilters
            /\ reg' = c.reg
            /\ tool' = [cmd |-> IF add THEN "add" ELSE "remove", level |-> r.level,
                        class_name |-> r.class_name, driver_name |-> r.driver_name,
                        ret |-> c.ret, read |-> c.read, writes |-> c.writes,
                        run |-> 1 - tool.run]
            /\ UNCHANGED <<vdev, last, pc, tirp, tseen, tval, fwd, dn, urb>>

ClassfilterAdd == Classfilter(TRUE)

ClassfilterRemove == Classfilter(FALSE)

NextFilter == ClassfilterAdd \/ ClassfilterRemove

SpecFilter == InitFilter /\ [][NextFilter]_vars

\* --------------------------------------------------- "devnode remove" runs
InitDevnode ==
    /\ DriverIdle
    /\ reg = NoFilters
    /\ tool = NoTool
    /\ \E devices \in SeqsUpTo(DeviceInfos, MaxDevices) : \E dry_run \in BOOLEAN :
         dn = Devnode(devices, dry_run, "start")
    /\ urb = NoTransfer

\* remove_devnode up to the enumeration: SetupDiGetClassDevs gives the
\* device list or fails; once it has the list, the hardware id given is
\* made a string list (line 324)
DevnodeStart ==
    /\ dn.pc = "start"
    /\ \E di_ok \in BOOLEAN :
         dn' = IF di_ok THEN [dn EXCEPT !.pc = "enum", !.hwid = make_hwid(dn.hwid)]
               ELSE [dn EXCEPT !.pc = "done", !.ret = FALSE]
    /\ UNCHANGED <<vdev, last, pc, tirp, tseen, tval, fwd, reg, tool, urb>>

\* one turn of the loop of enum_device_info: SetupDiEnumDeviceInfo yields
\* the device at index i and the visitor uninstall_device is called on it
EnumDevice ==
    /\ dn.pc = "enum"
    /\ ~dn.stopped
    /\ dn.i < Len(dn.devices)
    /\ dn.devices[dn.i + 1].enum_ok
    /\ LET dd == [info |-> dn.devices[dn.i + 1], InstanceId |-> dn.i + 1]
           r == [hwid |-> dn.hwid, dry_run |-> dn.dry_run]
           u == uninstall_device(dd, r, dn.reboot)
       IN  dn' = [dn EXCEPT !.i = dn.i + 1, !.stopped = u.ret, !.reboot = u.reboot,
                            !.calls = dn.calls + u.calls,
                            !.printed = dn.printed \o u.printed]
    /\ UNCHANGED <<vdev, last, pc, tirp, tseen, tval, fwd, reg, tool, urb>>

\* the loop ends: the visitor asked to stop, there are no more items, or
\* SetupDiEnumDeviceInfo failed; remove_devnode prompts for a reboot when the
\* flag is set and returns true
EnumEnd ==
    /\ dn.pc = "enum"
    /\ \/ dn.stopped
       \/ dn.i = Len(dn.devices)
       \/ dn.i < Len(dn.devices) /\ ~dn.devices[dn.i + 1].enum_ok
    /\ dn' = [dn EXCEPT !.pc = "done", !.prompted = dn.reboot, !.ret = TRUE]
    /\ UNCHANGED <<vdev, last, pc, tirp, tseen, tval, fwd, reg, tool, urb>>

NextDevnode == DevnodeStart \/ EnumDevice \/ EnumEnd

SpecDevnode == InitDevnode /\ [][NextDevnode]_vars

\* ------------------------------------------------------ transfer fetch
InitFetch ==
    /\ DriverIdle
    /\ reg = NoFilters
    /\ tool = NoTool
    /\ dn = NoDevnode
    /\ urb = NoTransfer

\* a bulk or interrupt transfer is submitted
SubmitUrb ==
    /\ \E f \in SUBSET TransferFlagBits : \E len \in 0 .. MaxTransfer :
         urb' = Transfer(f, len)
    /\ UNCHANGED <<vdev, last, pc, tirp, tseen, tval, fwd, reg, tool, dn>>

\* the response to the transfer arrives and the helper is run on it
FetchUrbr ==
    /\ ~urb.fetched
    /\ \E actual_length \in 0 .. MaxTransfer :
       \E copy_status \in IF IS_TRANSFER_FLAGS_IN(urb.TransferFlags)
                          THEN CopyStatuses ELSE {NotCalled} :
         LET r == fetch_urbr_bulk_or_interrupt(urb, [actual_length |-> actual_length],
                                               copy_status)
         IN  urb' = [urb EXCEPT !.fetched = TRUE, !.before = urb.TransferBufferLength,
                                !.TransferBufferLength = r.TransferBufferLength,
                                !.actual_length = actual_length,
                                !.copy_status = copy_status,
                                !.status = r.status, !.copies = r.copies]
    /\ UNCHANGED <<vdev, last, pc, tirp, tseen, tval, fwd, reg, tool, dn>>

NextFetch == SubmitUrb \/ FetchUrbr

SpecFetch == InitFetch /\ [][NextFetch]_vars

\* ================================================================ claims
\* a request has been resolved
Handled == last.MinorFunction # -1

\* the lifecycle fields of the node were left as they were by the last request
LifecycleUnchanged ==
    /\ last.post.PnPState = last.pre.PnPState
    /\ last.post.PreviousPnPState = last.pre.PreviousPnPState

\* the last request was resolved by the default rule of section 4.2: passed
\* down with the lower driver's status when the node has a lower layer,
\* completed locally with success otherwise
ResolvedByDefaultRule ==
    IF is_fdo(last.pre.type)
    THEN /\ last.res.how = "forwarded"
         /\ last.lower_status \in LowerStatuses
         /\ last.res.Status = last.lower_status
         /\ last.res.Information = NullInformation
    ELSE /\ last.res.how = "completed"
         /\ last.res.Status = STATUS_SUCCESS
         /\ last.lower_status = NotCalled

\* the last request had a minor function past the end of the dispatch table
OutOfRange == last.MinorFunction >= ARRAYSIZE_pnpmn_functions

\* C1: a request received while the state is Removed is completed with
\* STATUS_NO_SUCH_DEVICE, whatever the kind and the minor function: no
\* handler runs, the table is not read, nothing is passed down, and state
\* and previous state stay as they were.
C1_RemovedFastFail ==
    (Handled /\ last.pre.PnPState = "Removed") =>
        /\ last.res.how = "completed"
        /\ last.res.Status = STATUS_NO_SUCH_DEVICE
        /\ last.lower_status = NotCalled
        /\ last.handler = "none"
        /\ last.index = -1
        /\ last.unplug = 0
        /\ last.ref_delta = 0
        /\ LifecycleUnchanged

\* a Stop request reaches a removed node that has a lower layer
C1_Witness ==
    /\ last.pre.PnPState = "Removed"
    /\ last.MinorFunction = MinorOf("pnp_stop_device")
    /\ is_fdo(vdev.type)
    /\ last.res.Status = STATUS_NO_SUCH_DEVICE
    /\ vdev.PnPState = "Removed"

\* C2: QueryRemove on a node that is not Removed and whose interface is
\* referenced leaves state and previous state alone and completes the
\* request locally with STATUS_UNSUCCESSFUL, for every kind.
C2_QueryRemoveBlocked ==
    (last.handler = "pnp_query_remove_device" /\ last.pre.referenced) =>
        /\ LifecycleUnchanged
        /\ last.post.PnPState # "RemovePending" \/ last.pre.PnPState = "RemovePending"
        /\ last.res.how = "completed"
        /\ last.res.Status = STATUS_UNSUCCESSFUL
        /\ last.lower_status = NotCalled

\* QueryRemove is refused on a started node with a lower layer while a
\* reference is held
C2_Witness ==
    /\ last.handler = "pnp_query_remove_device"
    /\ last.pre.referenced
    /\ last.pre.PnPState = "Started"
    /\ is_fdo(vdev.type)
    /\ vdev.PnPState = "Started"
    /\ last.res.Status = STATUS_UNSUCCESSFUL

\* C3: QueryStop on a node in any state s other than Removed, followed by
\* CancelStop with no request in between, leaves the node in state s.
C3_QueryStopCancelStop ==
    [][(/\ last.handler = "pnp_query_stop_device"
        /\ last'.handler = "pnp_cancel_stop_device")
       => vdev'.PnPState = last.pre.PnPState]_vars

\* Started, QueryStop, CancelStop has been run and the node is Started
C3_Witness ==
    /\ last.handler = "pnp_cancel_stop_device"
    /\ last.pre.PnPState = "StopPending"
    /\ last.pre.PreviousPnPState = "Started"
    /\ vdev.PnPState = "Started"

\* C4: CancelStop outside StopPending and CancelRemove outside RemovePending
\* leave state and previous state as they were and resolve the request by
\* the default rule.
C4_CancelIsNoOp ==
    /\ (last.handler = "pnp_cancel_stop_device" /\ last.pre.PnPState # "StopPending")
           => (LifecycleUnchanged /\ ResolvedByDefaultRule)
    /\ (last.handler = "pnp_cancel_remove_device" /\ last.pre.PnPState # "RemovePending")
           => (LifecycleUnchanged /\ ResolvedByDefaultRule)

\* CancelStop reaches a node that was stopped after a QueryStop, so that the
\* saved state differs from the current one
C4_Witness ==
    /\ last.handler = "pnp_cancel_stop_device"
    /\ last.pre.PnPState = "Stopped"
    /\ last.pre.PreviousPnPState = "StopPending"
    /\ vdev.PnPState = "Stopped"

\* C5: a minor function past the end of the table, on a node that is not
\* Removed, runs no handler and leaves state, previous state and reference
\* count alone; the table is only ever read inside its range.
C5_OutOfRangeFrame ==
    /\ (Handled /\ OutOfRange /\ last.pre.PnPState # "Removed") =>
           /\ last.handler = "none"
           /\ last.index = -1
           /\ last.unplug = 0
           /\ last.ref_delta = 0
           /\ LifecycleUnchanged
    /\ last.index \in -1 .. (ARRAYSIZE_pnpmn_functions - 1)
    /\ last.index # -1 => (last.index = last.MinorFunction
                           /\ last.handler = pnpmn_functions[last.index + 1])

\* the first code past the table reaches a node in StopPending
C5_Witness ==
    /\ last.MinorFunction = ARRAYSIZE_pnpmn_functions
    /\ last.pre.PnPState = "StopPending"
    /\ vdev.PnPState = "StopPending"
    /\ last.handler = "none"

\* C6: a minor function past the end of the table, on a node that is not
\* Removed, is resolved by the default rule: passed down when the node has a
\* lower layer, completed with success otherwise.
C6_OutOfRangePassThrough ==
    (Handled /\ OutOfRange /\ last.pre.PnPState # "Removed") => ResolvedByDefaultRule

\* C7: QueryRemove never enters RemovePending while the interface is
\* referenced: the check of the gate and the transition are one atomic step
\* with respect to InterfaceReference.
C7_GateAndTransitionAtomic ==
    [][\A t \in Threads :
         (/\ pc[t] \in {"loaded", "saved"}
          /\ pc'[t] \in {"set", "stored"}
          /\ HandlerOf(t) = "pnp_query_remove_device"
          /\ tseen[t]
          /\ vdev'.PnPState = "RemovePending")
         => vdev.intf_ref_cnt = 0]_vars

\* C8: once the state is Removed, no step takes it away from Removed and no
\* step hands a request to the lower driver.
C8_RemovedIsTerminal ==
    [][vdev.PnPState = "Removed" => (vdev'.PnPState = "Removed" /\ ~fwd')]_vars

\* C9: QueryRemove on a node in state s other than Removed, with no
\* reference held, saves s as the previous state, enters RemovePending and
\* resolves by the default rule; a CancelRemove that comes next puts the
\* node back in state s.
C9_QueryRemoveCancelRemove ==
    [][/\ (/\ last'.handler = "pnp_query_remove_device"
           /\ last' # last
           /\ ~last'.pre.referenced)
          => /\ last'.pre.PnPState = vdev.PnPState
             /\ vdev'.PnPState = "RemovePending"
             /\ vdev'.PreviousPnPState = vdev.PnPState
             /\ last'.post.PnPState = "RemovePending"
             /\ last'.post.PreviousPnPState = last'.pre.PnPState
             /\ ResolvedByDefaultRule'
       /\ (/\ last.handler = "pnp_query_remove_device"
           /\ ~last.pre.referenced
           /\ last'.handler = "pnp_cancel_remove_device")
          => vdev'.PnPState = last.pre.PnPState]_vars

\* Stopped, QueryRemove, CancelRemove has been run and the node is Stopped
C9_Witness ==
    /\ last.handler = "pnp_cancel_remove_device"
    /\ last.pre.PnPState = "RemovePending"
    /\ last.pre.PreviousPnPState = "Stopped"
    /\ ~last.pre.referenced
    /\ vdev.PnPState = "Stopped"

\* C10: QueryStop, CancelStop, Stop, QueryRemove (when the gate lets it
\* through), CancelRemove, SurpriseRemoval and device-usage notification all
\* resolve the request by the default rule.
C10_DefaultRuleHandlers ==
    (/\ last.handler \in {"pnp_query_stop_device", "pnp_cancel_stop_device",
                          "pnp_stop_device", "pnp_query_remove_device",
                          "pnp_cancel_remove_device", "pnp_surprise_removal",
                          "pnp_device_usage_notification"}
     /\ (last.handler = "pnp_query_remove_device" => ~last.pre.referenced))
    => ResolvedByDefaultRule

\* SurpriseRemoval was passed down and the lower driver's failure came back
C10_Witness ==
    /\ last.handler = "pnp_surprise_removal"
    /\ last.res.how = "forwarded"
    /\ last.res.Status = STATUS_UNSUCCESSFUL
    /\ vdev.PnPState = "SurpriseRemovePending"

\* the handlers that pnp.cpp defines
InPnpCpp == {"pnp_query_stop_device", "pnp_cancel_stop_device", "pnp_stop_device",
             "pnp_query_remove_device", "pnp_cancel_remove_device",
             "pnp_surprise_removal", "pnp_query_bus_information", "pnp_0x0E",
             "pnp_read_config", "pnp_write_config", "pnp_eject", "pnp_set_lock",
             "pnp_query_pnp_device_state", "pnp_device_usage_notification",
             "pnp_query_legacy_bus_information", "pnp_device_enumerated",
             "pnp_query_device_text"}

\* the statuses a request can be completed with by vhci_pnp and pnp.cpp
CompletionStatuses ==
    IrpStatusIn \cup {STATUS_SUCCESS, STATUS_UNSUCCESSFUL, STATUS_NO_SUCH_DEVICE,
                      STATUS_INSUFFICIENT_RESOURCES, STATUS_INVALID_PARAMETER}

\* C11: every request that vhci_pnp resolves itself or through a handler of
\* pnp.cpp is resolved exactly once: either completed once and not passed
\* down, with the status of the completion returned, or passed down once
\* and not completed, with the lower driver's status returned.
C11_ResolvedExactlyOnce ==
    (Handled /\ last.handler \in InPnpCpp \cup {"none"}) =>
        /\ last.res.completions + last.res.forwards = 1
        /\ last.res.how \in {"completed", "forwarded"}
        /\ (last.res.how = "completed") =>
               /\ last.res.completions = 1
               /\ last.lower_status = NotCalled
               /\ last.res.Status \in CompletionStatuses
        /\ (last.res.how = "forwarded") =>
               /\ last.res.forwards = 1
               /\ last.lower_status \in LowerStatuses
               /\ last.res.Status = last.lower_status

\* Eject on a VPDO has unplugged the device and completed the request once
C11_Witness ==
    /\ last.handler = "pnp_eject"
    /\ last.pre.type = VDEV_VPDO
    /\ last.unplug = 1
    /\ last.res.completions = 1
    /\ last.res.forwards = 0
    /\ last.res.Status = STATUS_SUCCESS

\* C12: no handler waits for the interface reference count to reach zero:
\* every dispatched request is resolved, QueryRemove on a referenced node
\* included, also when no user of the interface ever releases its reference.
C12_EveryRequestResolves ==
    (pc[LiveThread] # "idle") ~> (pc[LiveThread] = "idle")

\* the gate of QueryRemove has been polled and has returned "not signalled"
\* while a reference is held
C12_Witness ==
    /\ pc[LiveThread] = "act"
    /\ HandlerOf(LiveThread) = "pnp_query_remove_device"
    /\ ~tseen[LiveThread]
    /\ vdev.intf_ref_cnt > 0
    /\ ~vdev.intf_ref_event

\* the last request was QueryDeviceText for the description
AskedDescription ==
    /\ last.handler = "pnp_query_device_text"
    /\ last.DeviceTextType = "DeviceTextDescription"

\* C13: QueryDeviceText(Description) on a VPDO that has a product
\* string returns the product string; on any other kind, or on a VPDO with
\* no product string, it returns the canned description of the kind.
\* (Stated for the requests whose string copies can be allocated.)
C13_ProductOrCanned ==
    (AskedDescription /\ last.alloc_ok /\ last.alloc_ok2) =>
        last.res.Information =
            IF last.pre.type = VDEV_VPDO /\ last.product # ""
            THEN StrInformation(last.product)
            ELSE StrInformation(vdev_desc[last.pre.type])

\* how many times name occurs in list
Occurrences(name, list) == Cardinality({i \in DOMAIN list : list[i] = name})

\* the step is a run of classfilter cmd
ClassfilterRuns(cmd) == tool'.cmd = cmd /\ tool'.run # tool.run

\* C14: "classfilter add" run twice in a row with the same level, class and
\* driver name leaves the name in the persisted list exactly once, and the
\* second run does not write the persisted value.
C14_SecondAddWritesNothing ==
    [][(/\ tool.cmd = "add"
        /\ tool.ret
        /\ ClassfilterRuns("add")
        /\ tool'.ret
        /\ tool'.level = tool.level
        /\ tool'.class_name = tool.class_name
        /\ tool'.driver_name = tool.driver_name)
       => /\ Occurrences(tool'.driver_name, Filters(reg'[ValueName(tool'.level)])) = 1
          /\ tool'.writes = 0]_vars

\* C15: "classfilter remove" of a name that is not in the persisted list
\* writes nothing, leaves the value as it is and, once the list was read,
\* returns success; of a name that is in the list, it removes every string
\* equal to the name and keeps the other names in their order, leaving the
\* value of the other level alone; a run that fails leaves the registry as
\* it was.
C15_RemoveExactMatches ==
    [][ClassfilterRuns("remove") =>
        LET val_name == ValueName(tool'.level)
            name == tool'.driver_name
            before == Filters(reg[val_name])
            after == Filters(reg'[val_name])
        IN  /\ Occurrences(name, before) = 0 =>
                   /\ tool'.writes = 0
                   /\ reg' = reg
                   /\ tool'.read => tool'.ret
            /\ (Occurrences(name, before) > 0 /\ tool'.read) => tool'.writes = 1
            /\ (Occurrences(name, before) > 0 /\ tool'.ret) =>
                   /\ after = SelectSeq(before, LAMBDA x : x # name)
                   /\ Occurrences(name, after) = 0
                   /\ \A n \in DOMAIN reg : n # val_name => reg'[n] = reg[n]
            /\ ~tool'.ret => reg' = reg]_vars

\* "u" has been removed from a list of three upper filters: "uf", of which
\* it is a prefix, and "f" are left in their order
C15_Witness ==
    /\ tool.cmd = "remove"
    /\ tool.level = opt_upper
    /\ tool.driver_name = <<"u">>
    /\ tool.ret
    /\ tool.writes = 1
    /\ reg[REGSTR_VAL_UPPERFILTERS] = Value(make_multi_sz(<<(<<"u", "f">>), (<<"f">>)>>))

\* the device visited k-th has the hardware id given on the command line
\* as its only one
Matches(k) ==
    /\ dn.devices[k].prop_ok
    /\ dn.devices[k].hwids = <<HardwareId>>

\* the devices visited so far that match
Matching == {k \in 1 .. dn.i : Matches(k)}

\* C16: a dry run of "devnode remove" never calls DiUninstallDevice and
\* never sets the reboot flag, it prints the instance id of every visited
\* device that matches; a real run calls DiUninstallDevice once for every
\* visited device that matches, whether or not earlier calls failed, and its
\* reboot flag is the OR of the reboot results of the calls that succeeded.
\* In both, the visitor never stops the enumeration: it ends at the end of
\* the device list or where SetupDiEnumDeviceInfo fails.
C16_DevnodeRemove ==
    dn.pc \in {"enum", "done"} =>
        /\ dn.dry_run =>
               /\ dn.calls = 0
               /\ ~dn.reboot
               /\ dn.printed = SelectSeq([k \in 1 .. dn.i |-> k],
                                         LAMBDA k : Matches(k) /\ dn.devices[k].id_ok)
        /\ ~dn.dry_run =>
               /\ dn.calls = Cardinality(Matching)
               /\ dn.printed = <<>>
               /\ dn.reboot = (\E k \in Matching : /\ dn.devices[k].uninstall_ok
                                                   /\ dn.devices[k].NeedReboot)
        /\ ~dn.stopped
        /\ \A k \in 1 .. dn.i : dn.devices[k].enum_ok
        /\ (dn.pc = "done" /\ dn.ret) =>
               /\ dn.i = Len(dn.devices) \/ ~dn.devices[dn.i + 1].enum_ok
               /\ dn.prompted = dn.reboot

\* a dry run over two matching devices has ended: both instance ids were
\* printed and nothing was uninstalled
C16_Witness ==
    /\ dn.pc = "done"
    /\ dn.dry_run
    /\ Len(dn.devices) = 2
    /\ \A k \in 1 .. Len(dn.devices) : Matches(k) /\ dn.devices[k].NeedReboot
    /\ dn.printed = <<1, 2>>
    /\ dn.calls = 0
    /\ ~dn.reboot

\* C17: only a transition into StopPending, RemovePending or
\* SurpriseRemovePending writes the previous state; every other handler of
\* pnp.cpp, Stop among them, leaves the previous state as it was. (The
\* clearing of the slot by a cancel that restores is not a write of a state
\* to it and is left out.)
C17_PreviousWrittenOnlyOnPending ==
    (last.handler \in InPnpCpp \ {"pnp_cancel_stop_device", "pnp_cancel_remove_device"}
     /\ last.post.PreviousPnPState # last.pre.PreviousPnPState)
    => last.post.PnPState \in {"StopPending", "RemovePending", "SurpriseRemovePending"}

\* C18: SurpriseRemoval on a node that is not Removed sets the state to
\* SurpriseRemovePending whether or not the interface is referenced, takes
\* and drops no reference, and resolves the request by the default rule.
C18_SurpriseRemovalUngated ==
    (last.handler = "pnp_surprise_removal") =>
        /\ last.pre.PnPState # "Removed"
        /\ last.post.PnPState = "SurpriseRemovePending"
        /\ last.post.referenced = last.pre.referenced
        /\ last.ref_delta = 0
        /\ ResolvedByDefaultRule

\* SurpriseRemoval reached a started node while a reference was held, and
\* the reference is still held
C18_Witness ==
    /\ last.handler = "pnp_surprise_removal"
    /\ last.pre.referenced
    /\ last.pre.PnPState = "Started"
    /\ vdev.PnPState = "SurpriseRemovePending"
    /\ vdev.intf_ref_cnt > 0

\* C19: Eject on a VPDO calls vhub_unplug_vpdo once and completes the
\* request with success; Eject on any other kind calls no unplug and is
\* resolved by the default rule; state and previous state stay as they were.
C19_EjectRule ==
    (last.handler = "pnp_eject") =>
        /\ IF last.pre.type = VDEV_VPDO
           THEN /\ last.unplug = 1
                /\ last.res.how = "completed"
                /\ last.res.Status = STATUS_SUCCESS
                /\ last.lower_status = NotCalled
           ELSE /\ last.unplug = 0
                /\ ResolvedByDefaultRule
        /\ LifecycleUnchanged

\* C20: device-usage notification, device-enumerated, legacy bus
\* information and the ordinal 0x0E are each resolved by the default rule
\* and change neither state nor previous state.
C20_NotificationsDefaultRule ==
    (last.handler \in {"pnp_device_usage_notification", "pnp_device_enumerated",
                       "pnp_query_legacy_bus_information", "pnp_0x0E"})
    => (ResolvedByDefaultRule /\ LifecycleUnchanged)

\* C21: the handler of QueryPnpDeviceState reports the flags that came in
\* the request, with PNP_DEVICE_REMOVED added exactly when the state is
\* Removed, and clears none; a QueryPnpDeviceState request that comes
\* through vhci_pnp with no other request running never has the flag added.
C21_RemovedFlag ==
    /\ last.handler = "pnp_query_pnp_device_state" =>
           /\ last.res.Information =
                  FlagsInformation(last.InformationIn.flags \cup
                                   IF last.pre.PnPState = "Removed"
                                   THEN {"PNP_DEVICE_REMOVED"} ELSE {})
           /\ last.InformationIn.flags \subseteq last.res.Information.flags
           /\ last.res.how = "completed"
           /\ last.res.Status = STATUS_SUCCESS
           /\ LifecycleUnchanged
    /\ (/\ last.entry = "vhci_pnp"
        /\ last.MinorFunction = MinorOf("pnp_query_pnp_device_state")) =>
           /\ last.res.Information = last.InformationIn
           /\ "PNP_DEVICE_REMOVED" \notin last.res.Information.flags

\* the handler was entered on a removed node with PNP_DEVICE_FAILED in the
\* request: both flags are reported
C21_Witness ==
    /\ last.entry = "handler"
    /\ last.handler = "pnp_query_pnp_device_state"
    /\ last.pre.PnPState = "Removed"
    /\ last.InformationIn.flags = {"PNP_DEVICE_FAILED"}
    /\ last.res.Information.flags = {"PNP_DEVICE_FAILED", "PNP_DEVICE_REMOVED"}


\* the last request was completed by the driver itself with status st, the
\* lower driver was not called and the lifecycle fields stayed as they were
CompletedLocally(st) ==
    /\ last.res.how = "completed"
    /\ last.res.completions = 1
    /\ last.res.forwards = 0
    /\ last.res.Status = st
    /\ last.lower_status = NotCalled
    /\ LifecycleUnchanged

\* C22: QueryBusInformation is completed locally on every kind: with
\* STATUS_INSUFFICIENT_RESOURCES and no result when the descriptor cannot be
\* allocated, with STATUS_SUCCESS and the descriptor (USB bus type, PNPBus,
\* bus number 1) otherwise. QueryDeviceText for a text type other than
\* Description and LocationInformation is completed locally with
\* STATUS_INVALID_PARAMETER and no result. Neither changes state or
\* previous state.
C22_QueryFailuresCompletedLocally ==
    /\ (last.handler = "pnp_query_bus_information" /\ ~last.alloc_ok) =>
           /\ CompletedLocally(STATUS_INSUFFICIENT_RESOURCES)
           /\ last.res.Information = NullInformation
    /\ (last.handler = "pnp_query_bus_information" /\ last.alloc_ok) =>
           /\ CompletedLocally(STATUS_SUCCESS)
           /\ last.res.Information =
                  [kind |-> "bus_info", str |-> "GUID_BUS_TYPE_USB/PNPBus/1", flags |-> {}]
    /\ (/\ last.handler = "pnp_query_device_text"
        /\ last.DeviceTextType \notin {"DeviceTextDescription",
                                       "DeviceTextLocationInformation"}) =>
           /\ CompletedLocally(STATUS_INVALID_PARAMETER)
           /\ last.res.Information = NullInformation

\* QueryBusInformation on a started node that has a lower layer found no
\* memory for the descriptor
C22_Witness ==
    /\ last.handler = "pnp_query_bus_information"
    /\ ~last.alloc_ok
    /\ is_fdo(last.pre.type)
    /\ last.pre.PnPState = "Started"
    /\ last.res.Status = STATUS_INSUFFICIENT_RESOURCES
    /\ last.res.how = "completed"

\* C23: whatever lifecycle requests came before, a CancelStop handled in
\* StopPending leaves the node in a state other than StopPending, and a
\* CancelRemove handled in RemovePending leaves it in a state other than
\* RemovePending.
C23_CancelLeavesPending ==
    /\ (last.handler = "pnp_cancel_stop_device" /\ last.pre.PnPState = "StopPending")
           => last.post.PnPState # "StopPending"
    /\ (last.handler = "pnp_cancel_remove_device" /\ last.pre.PnPState = "RemovePending")
           => last.post.PnPState # "RemovePending"

\* C24: the helper copies only for a transfer whose direction is IN. For
\* any other transfer it returns STATUS_SUCCESS, does not call the copy and
\* leaves TransferBufferLength as it was. For an IN transfer it calls the
\* copy once and returns its status; TransferBufferLength becomes the
\* response's actual_length when the copy returned STATUS_SUCCESS and stays
\* as it was otherwise.
C24_CopyOnlyInbound ==
    urb.fetched =>
        IF IS_TRANSFER_FLAGS_IN(urb.TransferFlags)
        THEN /\ urb.copies = 1
             /\ urb.status = urb.copy_status
             /\ urb.TransferBufferLength =
                    IF urb.copy_status = STATUS_SUCCESS THEN urb.actual_length
                    ELSE urb.before
        ELSE /\ urb.copies = 0
             /\ urb.status = STATUS_SUCCESS
             /\ urb.TransferBufferLength = urb.before

\* the copy of a shorter response into an IN transfer failed: the status of
\* the copy came back and the length is the one submitted
C24_Witness ==
    /\ urb.fetched
    /\ IS_TRANSFER_FLAGS_IN(urb.TransferFlags)
    /\ urb.copy_status = STATUS_INVALID_PARAMETER
    /\ urb.status = STATUS_INVALID_PARAMETER
    /\ urb.before = MaxTransfer
    /\ urb.actual_length < urb.before
    /\ urb.TransferBufferLength = urb.before

====
